---- MODULE Spec2Model ----
(***************************************************************************)
(* Model of slack_github_releases.py: the Slack release-notification       *)
(* scanner (SlackGitHubReleaseScanner, export_to_markdown, main).          *)
(*                                                                         *)
(* Texts are sequences of lexical tokens.  A token is the largest piece    *)
(* of text the three regular expressions of parse_release_notifications    *)
(* treat as a unit; two neighbouring tokens are separated by whitespace,   *)
(* except the delimiter tokens "|" and ">" which adjoin their neighbours.  *)
(*   <<"w", s>>           a plain word s                                   *)
(*   <<"repo", r>>        owner/name text r                                *)
(*   <<"ver", v>>         a version v such as v2.3.1                       *)
(*   <<"url", r, t>>      https://github.com/r/releases/tag/t              *)
(*   <<"relpage", r>>     https://github.com/r/releases/latest             *)
(*   <<"ghrepo", r>>      https://github.com/r                             *)
(* Local time is taken to be UTC (no daylight-saving transitions).         *)
(***************************************************************************)
EXTENDS Integers, Sequences, FiniteSets, TLC

\* ---------------------------------------------------------------- bounds
MaxMsgs == 3
MaxTs == 2
MaxAttachments == 2
MaxBlocks == 2
TicksPerDay == 2
MaxPages == 3
MaxChanPages == 2
MaxRecs == 2
MaxDay == 9

\* ------------------------------------------------------- python values
None == <<"None">>
Unknown == "Unknown"

W(s) == <<"w", s>>
Repo(r) == <<"repo", r>>
Ver(v) == <<"ver", v>>
Url(r, t) == <<"url", r, t>>
RelPage(r) == <<"relpage", r>>
GhRepo(r) == <<"ghrepo", r>>
NewRelease == W("New release")
Pipe == W("|")
Gt == W(">")

\* strings that version_pattern matches in full
VersionStrings == {"v2.3.1", "1.0.0-rc1", "v9.9.9"}

\* words that end in "in" or "for": repo_pattern has no leading \b
RepoKeywords == {W("in"), W("for"), W("plugin")}

SeqUpTo(S, n) == UNION {[1..k -> S] : k \in 0..n}

\* ------------------------------------------------------------- datetime
IsLeap(y) == (y % 4 = 0 /\ y % 100 # 0) \/ y % 400 = 0

DaysInMonth(y, m) ==
    IF m = 2 THEN (IF IsLeap(y) THEN 29 ELSE 28)
    ELSE IF m \in {4, 6, 9, 11} THEN 30 ELSE 31

NextDay(c) ==
    IF c.day < DaysInMonth(c.year, c.month) THEN [c EXCEPT !.day = @ + 1]
    ELSE IF c.month < 12 THEN [c EXCEPT !.month = @ + 1, !.day = 1]
    ELSE [year |-> c.year + 1, month |-> 1, day |-> 1]

RECURSIVE AddDays(_, _)
AddDays(c, n) == IF n = 0 THEN c ELSE AddDays(NextDay(c), n - 1)

\* datetime.fromtimestamp(ts), ts counted in ticks since 1970-01-01 00:00
FromTimestamp(ts) ==
    LET c == AddDays([year |-> 1970, month |-> 1, day |-> 1], ts \div TicksPerDay)
    IN  [year |-> c.year, month |-> c.month, day |-> c.day, tod |-> ts % TicksPerDay]

\* datetime.__lt__
DtLess(a, b) ==
    \/ a.year < b.year
    \/ a.year = b.year /\ a.month < b.month
    \/ a.year = b.year /\ a.month = b.month /\ a.day < b.day
    \/ a.year = b.year /\ a.month = b.month /\ a.day = b.day /\ a.tod < b.tod

\* --------------------------------------------------- pattern searches
Contains(text, tok) == \E i \in DOMAIN text : text[i] = tok

\* the leftmost of a set of match positions, 0 when there is none
Leftmost(positions) ==
    IF positions = {} THEN 0
    ELSE CHOOSE i \in positions : \A j \in positions : i <= j

RepoAt(text, i) == i < Len(text) /\ text[i] \in RepoKeywords /\ text[i + 1][1] = "repo"

\* re.search(repo_pattern, text): the match, group(1) is its second field
RepoSearch(text) ==
    LET i == Leftmost({n \in DOMAIN text : RepoAt(text, n)}) IN IF i = 0 THEN None ELSE text[i + 1]

VersionAt(text, i) ==
    \/ text[i][1] = "ver"
    \/ text[i][1] = "url" /\ text[i][3] \in VersionStrings

\* re.search(version_pattern, text); a version-shaped tag inside a release
\* URL is matched as well
VersionSearch(text) ==
    LET i == Leftmost({n \in DOMAIN text : VersionAt(text, n)})
    IN  IF i = 0 THEN None
        ELSE IF text[i][1] = "ver" THEN text[i] ELSE Ver(text[i][3])

UrlAt(text, i) == text[i][1] = "url"

\* re.search(url_pattern, text): group(0) is the URL
UrlSearch(text) ==
    LET i == Leftmost({n \in DOMAIN text : UrlAt(text, n)}) IN IF i = 0 THEN None ELSE text[i]

\* s.split(sep)[0]
SplitFirst(text, sep) ==
    IF Contains(text, sep)
    THEN SubSeq(text, 1, (CHOOSE i \in DOMAIN text :
                            text[i] = sep /\ \A j \in 1..(i - 1) : text[j] # sep) - 1)
    ELSE text

CleanLink(title_link) == SplitFirst(SplitFirst(title_link, Pipe), Gt)

ContainsGithub(text) == \E i \in DOMAIN text : text[i][1] \in {"url", "relpage", "ghrepo"}

ContainsReleasesPath(text) == \E i \in DOMAIN text : text[i][1] \in {"url", "relpage"}

\* ------------------------------------------- parse_release_notifications
RECURSIVE HasReleaseFrom(_, _)
HasReleaseFrom(attachments, i) ==
    IF i > Len(attachments) THEN FALSE
    ELSE IF Contains(attachments[i].fallback, NewRelease) THEN TRUE
    ELSE HasReleaseFrom(attachments, i + 1)

\* variant: the whole attachment text is searched, not the fallback alone
HasRelease_AnyText(message) ==
    \E i \in DOMAIN message.attachments :
        Contains(message.attachments[i].fallback \o message.attachments[i].title
                 \o message.attachments[i].text, NewRelease)

HasRelease(message) == HasReleaseFrom(message.attachments, 1)

SearchText(attachment) == attachment.fallback \o attachment.title \o attachment.text

NoMatch == [repo |-> None, version |-> None, url |-> None]

TitleLinkUrl(title_link) ==
    IF ContainsGithub(title_link) /\ ContainsReleasesPath(title_link)
    THEN UrlSearch(CleanLink(title_link))
    ELSE None

\* variant: a later attachment's match replaces an earlier one
ScanAttachment_LastWins(st, attachment) ==
    LET search_text == attachment.fallback \o attachment.title \o attachment.text
        repo_match == RepoSearch(search_text)
        version_match == VersionSearch(search_text)
        url_text == UrlSearch(search_text)
        url_match == IF url_text = None /\ attachment.title_link # <<>>
                     THEN TitleLinkUrl(attachment.title_link)
                     ELSE url_text
    IN  [repo |-> IF repo_match # None THEN repo_match ELSE st.repo,
         version |-> IF version_match # None THEN version_match ELSE st.version,
         url |-> IF url_match # None THEN url_match ELSE st.url]

ScanAttachment(st, attachment) ==
    LET search_text == SearchText(attachment)
        repo_match == IF st.repo = None THEN RepoSearch(search_text) ELSE st.repo
        version_match == IF st.version = None THEN VersionSearch(search_text) ELSE st.version
        url_text == IF st.url = None THEN UrlSearch(search_text) ELSE st.url
        url_match == IF url_text = None /\ attachment.title_link # <<>>
                     THEN TitleLinkUrl(attachment.title_link)
                     ELSE url_text
    IN  [repo |-> repo_match, version |-> version_match, url |-> url_match]

ScanBlock(st, block) ==
    IF block.type = "section" /\ block.text # None
    THEN [repo |-> IF st.repo = None THEN RepoSearch(block.text) ELSE st.repo,
          version |-> IF st.version = None THEN VersionSearch(block.text) ELSE st.version,
          url |-> IF st.url = None THEN UrlSearch(block.text) ELSE st.url]
    ELSE st

RECURSIVE ScanAttachments(_, _, _)
ScanAttachments(st, attachments, i) ==
    IF i > Len(attachments) THEN st
    ELSE ScanAttachments(ScanAttachment(st, attachments[i]), attachments, i + 1)

RECURSIVE ScanBlocks(_, _, _)
ScanBlocks(st, blocks, i) ==
    IF i > Len(blocks) THEN st
    ELSE ScanBlocks(ScanBlock(st, blocks[i]), blocks, i + 1)

Matches(message) ==
    ScanBlocks(ScanAttachments(NoMatch, message.attachments, 1), message.blocks, 1)

\* re.search(r'github\.com/(owner/name)', url).group(1)
UrlRepo(url) == url[2]

\* variant: no fallback to the URL path
RepositoryOf_NoUrlFallback(m) == IF m.repo # None THEN m.repo[2] ELSE Unknown

RepositoryOf(m) ==
    IF m.repo # None THEN m.repo[2]
    ELSE IF m.url # None THEN UrlRepo(m.url)
    ELSE Unknown

ReleaseInfo(message) ==
    LET m == Matches(message)
    IN  [repository |-> RepositoryOf(m),
         version |-> IF m.version # None THEN m.version[2] ELSE Unknown,
         release_date |-> FromTimestamp(message.ts),
         url |-> m.url]

\* list.sort(key=release_date, reverse=True): stable, newest first
RECURSIVE InsertDesc(_, _)
InsertDesc(sorted, r) ==
    IF sorted = <<>> THEN <<r>>
    ELSE IF DtLess(Head(sorted).release_date, r.release_date)
         THEN <<r>> \o sorted
         ELSE <<Head(sorted)>> \o InsertDesc(Tail(sorted), r)

RECURSIVE SortByDateDesc(_, _)
SortByDateDesc(acc, rs) ==
    IF rs = <<>> THEN acc ELSE SortByDateDesc(InsertDesc(acc, Head(rs)), Tail(rs))

RECURSIVE CollectReleases(_)
CollectReleases(msgs) ==
    IF msgs = <<>> THEN <<>>
    ELSE IF HasRelease(Head(msgs))
         THEN <<ReleaseInfo(Head(msgs))>> \o CollectReleases(Tail(msgs))
         ELSE CollectReleases(Tail(msgs))

\* variant: the sort without reverse=True
SortReleases_Ascending(rs) ==
    LET d == SortByDateDesc(<<>>, rs) IN [i \in DOMAIN d |-> d[Len(d) + 1 - i]]

SortReleases(rs) == SortByDateDesc(<<>>, rs)

ParseReleaseNotifications(msgs) == SortReleases(CollectReleases(msgs))


\* ------------------------------------------------- fetch_release_notes
\* re.search(r'github\.com/([^/]+)/([^/]+)/releases/tag/(.+)', url)
NotesUrlMatch(url) == url # None /\ url[1] = "url"

\* what requests.get(api_url) does: a 200 with a JSON body field, another
\* status, or an exception (timeout, connection error, bad JSON)
Body1 == <<<<"#", "h">>, <<"-", "a">>, <<>>, <<" ", "b">>>>
Responses == {<<"200", <<>>>>, <<"200", Body1>>, <<"404">>, <<"raise">>}

\* variant: an empty body is returned as it is
FetchReleaseNotes_KeepEmpty(url, resp) ==
    IF url = None \/ url = <<>> THEN None
    ELSE IF ~NotesUrlMatch(url) THEN None
    ELSE IF resp[1] = "200" THEN resp[2]
    ELSE None

FetchReleaseNotes(url, resp) ==
    IF url = None \/ url = <<>> THEN None
    ELSE IF ~NotesUrlMatch(url) THEN None
    ELSE IF resp[1] = "raise" THEN None
    ELSE IF resp[1] = "200" THEN (IF resp[2] # <<>> THEN resp[2] ELSE None)
    ELSE None

\* release.get('url') is truthy
HasUrl(release) == release.url # None /\ release.url # <<>>

WithNotes(release, notes) ==
    [k \in DOMAIN release \cup {"notes"} |-> IF k = "notes" THEN notes ELSE release[k]]

\* --------------------------------------------------- export_to_markdown
RECURSIVE Digits(_)
Digits(n) ==
    LET d == <<"0", "1", "2", "3", "4", "5", "6", "7", "8", "9">>[(n % 10) + 1]
    IN  IF n < 10 THEN <<d>> ELSE Digits(n \div 10) \o <<d>>

\* strftime('%Y.%-m.%-d')
StrftimeYmd(dt) == Digits(dt.year) \o <<".">> \o Digits(dt.month) \o <<".">> \o Digits(dt.day)

\* ord(c)
CharCode(c) ==
    CASE c = "." -> 46 [] c = "0" -> 48 [] c = "1" -> 49 [] c = "2" -> 50
      [] c = "3" -> 51 [] c = "4" -> 52 [] c = "5" -> 53 [] c = "6" -> 54
      [] c = "7" -> 55 [] c = "8" -> 56 [] c = "9" -> 57

\* str.__lt__: code point by code point, a proper prefix is smaller
RECURSIVE StrLess(_, _)
StrLess(a, b) ==
    IF b = <<>> THEN FALSE
    ELSE IF a = <<>> THEN TRUE
    ELSE IF CharCode(Head(a)) # CharCode(Head(b)) THEN CharCode(Head(a)) < CharCode(Head(b))
    ELSE StrLess(Tail(a), Tail(b))

\* sorted(keys, reverse=True) over distinct strings
RECURSIVE SortedDatesDesc(_)
SortedDatesDesc(S) ==
    IF S = {} THEN <<>>
    ELSE LET mx == CHOOSE x \in S : \A y \in S \ {x} : StrLess(y, x)
         IN  <<mx>> \o SortedDatesDesc(S \ {mx})

\* str.strip() of one line (a sequence of characters)
RECURSIVE LStrip(_)
LStrip(line) == IF line # <<>> /\ Head(line) = " " THEN LStrip(Tail(line)) ELSE line

RECURSIVE RStrip(_)
RStrip(line) ==
    IF line # <<>> /\ line[Len(line)] = " " THEN RStrip(SubSeq(line, 1, Len(line) - 1)) ELSE line

Strip(line) == RStrip(LStrip(line))

NoteLine(note_line) ==
    LET l == Strip(note_line)
    IN  IF l = <<>> THEN <<>>
        ELSE IF Head(l) = "#" THEN <<>>
        ELSE IF Head(l) \in {"-", "*"} THEN <<<<"note", l>>>>
        ELSE <<<<"note", <<"-", " ">> \o l>>>>

RECURSIVE NoteLines(_)
NoteLines(body) == IF body = <<>> THEN <<>> ELSE NoteLine(Head(body)) \o NoteLines(Tail(body))

\* release.get('notes') is truthy
HasNotes(release) ==
    "notes" \in DOMAIN release /\ release.notes # None /\ release.notes # <<>>

ReleaseLines(release) ==
    <<<<"release", release.repository, release.version,
        IF HasUrl(release) THEN release.url ELSE None,
        StrftimeYmd(release.release_date)>>>>
    \o (IF HasNotes(release) THEN NoteLines(release.notes) ELSE <<>>)

RECURSIVE GroupLines(_)
GroupLines(group) ==
    IF group = <<>> THEN <<>> ELSE ReleaseLines(Head(group)) \o GroupLines(Tail(group))

ReleasesByDate(rels, date_str) ==
    SelectSeq(rels, LAMBDA r : StrftimeYmd(r.release_date) = date_str)

SortedDates(rels) == SortedDatesDesc({StrftimeYmd(rels[i].release_date) : i \in DOMAIN rels})

RECURSIVE DateSections(_, _)
DateSections(rels, dates) ==
    IF dates = <<>> THEN <<>>
    ELSE <<<<"date", Head(dates)>>, <<"heading">>>>
         \o GroupLines(ReleasesByDate(rels, Head(dates)))
         \o DateSections(rels, Tail(dates))

ExportToMarkdown(rels) == DateSections(rels, SortedDates(rels))

\* ------------------------------------------------------------------ main
Unset == "<unset>"
ChannelName == "notification-development"

\* os.environ.get(name) is truthy
EnvSet(v) == v # Unset /\ v # ""

\* str.lower()
Lower(s) == CASE s = "TRUE" -> "true" [] s = "Yes" -> "yes" [] OTHER -> s

\* os.environ.get(name, "").lower() in ("true", "1", "yes")
Flag(v) == Lower(IF v = Unset THEN "" ELSE v) \in {"true", "1", "yes"}

\* int(os.environ.get("SCAN_DAYS", "7")) raises ValueError
BadInt(v) == v \notin {Unset, "7"}

\* exit(main()): None and 0 are success, an uncaught exception is status 1
ExitCode(r) == CASE r = "None" -> 0 [] r = "0" -> 0 [] r = "1" -> 1 [] r = "uncaught" -> 1

\* strftime('%Y-%m-%d %H:%M:%S')
StrftimeFull(dt) == <<dt.year, dt.month, dt.day, dt.tod>>

CsvFieldnames(fetch_notes) ==
    <<"repository", "version", "release_date", "url">>
    \o (IF fetch_notes THEN <<"notes">> ELSE <<>>)

CsvRow(release, fetch_notes) ==
    LET row == [repository |-> release.repository,
                version |-> release.version,
                release_date |-> StrftimeFull(release.release_date),
                url |-> IF HasUrl(release) THEN release.url ELSE <<>>]
    IN  IF fetch_notes
        THEN WithNotes(row, IF HasNotes(release) THEN release.notes ELSE <<>>)
        ELSE row

\* the first channel of one listing page whose name is channel_name
FindChannel(channels, name) ==
    IF \E i \in DOMAIN channels : channels[i].name = name
    THEN channels[CHOOSE i \in DOMAIN channels :
                    channels[i].name = name /\ \A j \in 1..(i - 1) : channels[j].name # name].id
    ELSE None


\* ------------------------------------------------------------ input sets
NoText == <<>>

Att(fallback, title, text, title_link) ==
    [fallback |-> fallback, title |-> title, text |-> text, title_link |-> title_link]

Block(type, text) == [type |-> type, text |-> text]

Msg(attachments, blocks, ts) == [attachments |-> attachments, blocks |-> blocks, ts |-> ts]

UrlWidget == Url("acme/widget", "v2.3.1")
UrlNightly == Url("octo/tool", "nightly")

\* attachments of the single-message extraction runs
ExtractAttachments ==
    { Att(<<NewRelease, Repo("acme/widget"), Ver("v2.3.1")>>, NoText, NoText,
          <<UrlWidget, Pipe, W("label"), Gt, W("extra")>>),
      Att(<<NewRelease, W("in")>>, <<Repo("octo/tool")>>, <<Ver("1.0.0-rc1")>>, NoText),
      Att(<<W("Deployed"), W("plugin"), Repo("plug/in")>>, NoText, <<UrlNightly>>,
          <<GhRepo("octo/tool")>>),
      Att(<<NewRelease>>, NoText, NoText, <<W("see"), Gt, Url("late/link", "v9.9.9")>>),
      Att(NoText, <<Ver("v9.9.9")>>, NoText, <<RelPage("acme/widget")>>),
      Att(<<NewRelease, W("for"), Repo("for/phrase")>>, NoText, <<UrlWidget>>,
          <<Url("other/link", "nightly")>>),
      Att(<<NewRelease>>, NoText, NoText, NoText),
      Att(NoText, NoText, NoText, <<Url("only/link", "nightly")>>) }

ExtractBlocks ==
    { Block("section", <<W("for"), Repo("blk/repo"), Ver("v9.9.9"), Url("blk/repo", "v9.9.9")>>),
      Block("section", <<NewRelease, W("in"), Repo("blk/two")>>),
      Block("context", <<W("in"), Repo("ctx/repo"), Ver("1.0.0-rc1"), Url("ctx/repo", "1.0.0-rc1")>>),
      Block("section", None) }

ExtractMsgs ==
    { Msg(a, b, 0) : a \in SeqUpTo(ExtractAttachments, MaxAttachments),
                     b \in SeqUpTo(ExtractBlocks, MaxBlocks) }

\* message shapes of the list-level parse runs
AttWidget ==
    Att(<<NewRelease, W("in"), Repo("acme/widget"), Ver("v2.3.1")>>, NoText, NoText, <<UrlWidget>>)
AttBare == Att(<<NewRelease>>, <<Repo("octo/tool")>>, NoText, NoText)
AttOther ==
    Att(<<W("Deployed")>>, <<NewRelease, W("for"), Repo("octo/tool"), Ver("1.0.0-rc1")>>,
        <<UrlNightly>>, NoText)
BlockRelease ==
    Block("section", <<NewRelease, W("for"), Repo("blk/repo"), Ver("v9.9.9"), Url("blk/repo", "v9.9.9")>>)

ParseShapes ==
    { <<<<AttWidget>>, <<>>>>, <<<<AttBare>>, <<BlockRelease>>>>,
      <<<<AttOther>>, <<>>>>, <<<<>>, <<BlockRelease>>>> }

ParseMsgs == { Msg(sh[1], sh[2], ts) : sh \in ParseShapes, ts \in 0..MaxTs }

\* messages the history pages of a whole run are drawn from
MainMsgs ==
    { Msg(<<AttWidget>>, <<>>, 0), Msg(<<AttBare>>, <<BlockRelease>>, TicksPerDay),
      Msg(<<AttBare>>, <<>>, 1) }

\* a page of conversations.history: no message or one message
HistoryPages == SeqUpTo(MainMsgs, 1)

Channels == { [name |-> ChannelName, id |-> <<"C1">>], [name |-> "general", id |-> <<"C2">>] }

\* the pages of conversations.list: one channel per page, no channel listed
\* twice; a workspace without channels answers with one empty page
ChannelListings ==
    { l \in UNION {[1..k -> SeqUpTo(Channels, 1)] : k \in 1..MaxChanPages} :
        /\ \A i, j \in DOMAIN l : i # j => l[i] # l[j]
        /\ Len(l) > 1 => \A i \in DOMAIN l : l[i] # <<>> }

EnvSet1 ==
    [SLACK_BOT_TOKEN : {Unset, "xoxb-1"}, SCAN_DAYS : {Unset, "x"}, DEBUG : {Unset, "1"},
     FETCH_NOTES : {Unset, "TRUE"}, OUTPUT_CSV : {Unset, "out.csv"},
     OUTPUT_MD : {Unset, "out.md"}]

\* ----------------------------------------------------------------- state
\* an output file: not written, or written with a content
NotWritten == <<>>
File(content) == <<content>>

VARIABLES pc, env, listing, channel_id, messages, pagesFetched, releases, idx,
          notesCalls, apiCalls, csvFile, mdFile, ret, error, exit_code

vars == <<pc, env, listing, channel_id, messages, pagesFetched, releases, idx,
          notesCalls, apiCalls, csvFile, mdFile, ret, error, exit_code>>

NoEnv ==
    [SLACK_BOT_TOKEN |-> "xoxb-1", SCAN_DAYS |-> Unset, DEBUG |-> Unset,
     FETCH_NOTES |-> Unset, OUTPUT_CSV |-> Unset, OUTPUT_MD |-> Unset]

Blank ==
    /\ listing = <<>>
    /\ channel_id = None
    /\ pagesFetched = 0
    /\ idx = 1
    /\ notesCalls = <<>>
    /\ apiCalls = 0
    /\ csvFile = NotWritten
    /\ mdFile = NotWritten
    /\ ret = "unset"
    /\ error = "none"
    /\ exit_code = -1

Init ==
    /\ pc = "start"
    /\ env \in EnvSet1
    /\ messages = <<>>
    /\ releases = <<>>
    /\ Blank

\* variant: the handler of the exception returns 0
Fail_ReturnZero(e, r) ==
    /\ error' = e
    /\ ret' = "0"
    /\ pc' = "exit"

Fail(e, r) ==
    /\ error' = e
    /\ ret' = r
    /\ pc' = "exit"

\* main, lines 383-387: no token, bare return
MainNoToken ==
    /\ pc = "start"
    /\ ~EnvSet(env.SLACK_BOT_TOKEN)
    /\ ret' = "None"
    /\ pc' = "exit"
    /\ UNCHANGED <<env, listing, channel_id, messages, pagesFetched, releases, idx,
                   notesCalls, apiCalls, csvFile, mdFile, error, exit_code>>

\* main, lines 390-402: read the configuration, build the scanner
MainStart ==
    /\ pc = "start"
    /\ EnvSet(env.SLACK_BOT_TOKEN)
    /\ IF BadInt(env.SCAN_DAYS) THEN Fail("ValueError", "uncaught")
       ELSE pc' = "channel" /\ UNCHANGED <<error, ret>>
    /\ UNCHANGED <<env, listing, channel_id, messages, pagesFetched, releases, idx,
                   notesCalls, apiCalls, csvFile, mdFile, exit_code>>

\* the identifier get_channel_id finds in the response of conversations_list
ListedChannel(l) == FindChannel(l[1], ChannelName)

\* get_channel_id, called from fetch_messages
GetChannelId ==
    /\ pc = "channel"
    /\ apiCalls' = apiCalls + 1
    /\ \E l \in ChannelListings, resp \in {"ok", "SlackApiError"} :
         /\ listing' = l
         /\ IF resp = "SlackApiError"
            THEN Fail("Exception", "1") /\ UNCHANGED channel_id
            ELSE IF ListedChannel(l) # None
                 THEN /\ channel_id' = ListedChannel(l)
                      /\ pc' = "history"
                      /\ UNCHANGED <<error, ret>>
                 ELSE Fail("ValueError", "1") /\ UNCHANGED channel_id
    /\ UNCHANGED <<env, messages, pagesFetched, releases, idx, notesCalls, csvFile,
                   mdFile, exit_code>>

\* fetch_messages: one conversations_history call, first page or next page
History ==
    /\ pc = "history"
    /\ apiCalls' = apiCalls + 1
    /\ \E resp \in {"ok", "SlackApiError"} :
         IF resp = "SlackApiError"
         THEN Fail("Exception", "1") /\ UNCHANGED <<messages, pagesFetched>>
         ELSE \E page \in HistoryPages, has_more \in BOOLEAN :
                /\ has_more => pagesFetched + 1 < MaxPages
                /\ messages' = messages \o page
                /\ pagesFetched' = pagesFetched + 1
                /\ UNCHANGED error
                /\ IF has_more THEN pc' = "history" /\ UNCHANGED ret
                   ELSE IF Flag(env.DEBUG) THEN pc' = "exit" /\ ret' = "0"
                   ELSE pc' = "parse" /\ UNCHANGED ret
    /\ UNCHANGED <<env, listing, channel_id, releases, idx, notesCalls, csvFile, mdFile,
                   exit_code>>

\* scan_releases, lines 254-259
Parse ==
    /\ pc = "parse"
    /\ releases' = ParseReleaseNotifications(messages)
    /\ idx' = 1
    /\ pc' = IF Flag(env.FETCH_NOTES) /\ releases' # <<>> THEN "notes" ELSE "csv"
    /\ UNCHANGED <<env, listing, channel_id, messages, pagesFetched, notesCalls, apiCalls,
                   csvFile, mdFile, ret, error, exit_code>>

\* variant: the notes loop ends at the first call that yields no notes
NotesStep_StopOnFailure ==
    /\ pc = "notes"
    /\ idx <= Len(releases)
    /\ IF releases[idx].url # None
       THEN \E resp \in Responses :
              /\ notesCalls' = Append(notesCalls, [i |-> idx, url |-> releases[idx].url,
                                                   resp |-> resp])
              /\ releases' = [releases EXCEPT ![idx] =
                                WithNotes(@, FetchReleaseNotes(releases[idx].url, resp))]
              /\ pc' = IF idx = Len(releases) \/ FetchReleaseNotes(releases[idx].url, resp) = None
                       THEN "csv" ELSE "notes"
       ELSE /\ releases' = [releases EXCEPT ![idx] = WithNotes(@, None)]
            /\ UNCHANGED notesCalls
            /\ pc' = IF idx = Len(releases) THEN "csv" ELSE "notes"
    /\ idx' = idx + 1
    /\ UNCHANGED <<env, listing, channel_id, messages, pagesFetched, apiCalls, csvFile,
                   mdFile, ret, error, exit_code>>

\* scan_releases, lines 261-269: one iteration of the notes loop
NotesStep ==
    /\ pc = "notes"
    /\ idx <= Len(releases)
    /\ IF HasUrl(releases[idx])
       THEN \E resp \in Responses :
              /\ notesCalls' = Append(notesCalls, [i |-> idx, url |-> releases[idx].url,
                                                   resp |-> resp])
              /\ releases' = [releases EXCEPT ![idx] =
                                WithNotes(@, FetchReleaseNotes(releases[idx].url, resp))]
       ELSE /\ releases' = [releases EXCEPT ![idx] = WithNotes(@, None)]
            /\ UNCHANGED notesCalls
    /\ idx' = idx + 1
    /\ pc' = IF idx = Len(releases) THEN "csv" ELSE "notes"
    /\ UNCHANGED <<env, listing, channel_id, messages, pagesFetched, apiCalls, csvFile,
                   mdFile, ret, error, exit_code>>

\* main, lines 447-471: print_releases and the CSV option
WriteCsv ==
    /\ pc = "csv"
    /\ IF EnvSet(env.OUTPUT_CSV)
       THEN \E io \in {"ok", "OSError"} :
              IF io = "OSError" THEN Fail("OSError", "1") /\ UNCHANGED csvFile
              ELSE /\ csvFile' = File([fieldnames |-> CsvFieldnames(Flag(env.FETCH_NOTES)),
                                       rows |-> [i \in DOMAIN releases |->
                                                   CsvRow(releases[i], Flag(env.FETCH_NOTES))]])
                   /\ pc' = "md"
                   /\ UNCHANGED <<error, ret>>
       ELSE pc' = "md" /\ UNCHANGED <<csvFile, error, ret>>
    /\ UNCHANGED <<env, listing, channel_id, messages, pagesFetched, releases, idx,
                   notesCalls, apiCalls, mdFile, exit_code>>

\* main, lines 473-482: the Markdown option, then return 0
WriteMd ==
    /\ pc = "md"
    /\ IF EnvSet(env.OUTPUT_MD)
       THEN \E io \in {"ok", "OSError"} :
              IF io = "OSError" THEN Fail("OSError", "1") /\ UNCHANGED mdFile
              ELSE /\ mdFile' = File(ExportToMarkdown(releases))
                   /\ pc' = "exit"
                   /\ ret' = "0"
                   /\ UNCHANGED error
       ELSE pc' = "exit" /\ ret' = "0" /\ UNCHANGED <<mdFile, error>>
    /\ UNCHANGED <<env, listing, channel_id, messages, pagesFetched, releases, idx,
                   notesCalls, apiCalls, csvFile, exit_code>>

\* line 486: exit(main())
Exit ==
    /\ pc = "exit"
    /\ exit_code' = ExitCode(ret)
    /\ pc' = "done"
    /\ UNCHANGED <<env, listing, channel_id, messages, pagesFetched, releases, idx,
                   notesCalls, apiCalls, csvFile, mdFile, ret, error>>

Next ==
    \/ MainNoToken
    \/ MainStart
    \/ GetChannelId
    \/ History
    \/ Parse
    \/ NotesStep
    \/ WriteCsv
    \/ WriteMd
    \/ Exit

Spec == Init /\ [][Next]_vars

\* ------------------------------- parse_release_notifications on its own
InitParse ==
    /\ pc = "parse_in"
    /\ env = NoEnv
    /\ messages \in SeqUpTo(ParseMsgs, MaxMsgs)
    /\ releases = <<>>
    /\ Blank

InitExtract ==
    /\ pc = "parse_in"
    /\ env = NoEnv
    /\ messages \in {<<m>> : m \in ExtractMsgs}
    /\ releases = <<>>
    /\ Blank

ParseCall ==
    /\ pc = "parse_in"
    /\ releases' = ParseReleaseNotifications(messages)
    /\ pc' = "parse_out"
    /\ UNCHANGED <<env, listing, channel_id, messages, pagesFetched, idx, notesCalls,
                   apiCalls, csvFile, mdFile, ret, error, exit_code>>

NextParse == ParseCall

SpecParse == InitParse /\ [][NextParse]_vars

SpecExtract == InitExtract /\ [][NextParse]_vars

\* ---------------------------------------- export_to_markdown on its own
MdNotes == {<<"absent">>, None, Body1}

MdRecord(day, url, notes) ==
    LET r == [repository |-> "acme/widget", version |-> "v2.3.1",
              release_date |-> FromTimestamp(day * TicksPerDay), url |-> url]
    IN  IF notes = <<"absent">> THEN r ELSE WithNotes(r, notes)

MdRecords == { MdRecord(d, u, n) : d \in 0..MaxDay, u \in {None, UrlWidget}, n \in MdNotes }

\* the lists parse_release_notifications can hand over: newest first
InitMd ==
    /\ pc = "md_in"
    /\ env = NoEnv
    /\ messages = <<>>
    /\ releases \in { rs \in SeqUpTo(MdRecords, MaxRecs) :
                        \A i \in 1..(Len(rs) - 1) :
                            ~DtLess(rs[i].release_date, rs[i + 1].release_date) }
    /\ Blank

MdCall ==
    /\ pc = "md_in"
    /\ mdFile' = File(ExportToMarkdown(releases))
    /\ pc' = "md_out"
    /\ UNCHANGED <<env, listing, channel_id, messages, pagesFetched, releases, idx,
                   notesCalls, apiCalls, csvFile, ret, error, exit_code>>

NextMd == MdCall

SpecMd == InitMd /\ [][NextMd]_vars


\* =============================================================== claims
Range(f) == {f[i] : i \in DOMAIN f}

\* a message is a release notification: some attachment's fallback contains
\* "New release"
Qualifies(message) ==
    \E i \in DOMAIN message.attachments :
        \E n \in DOMAIN message.attachments[i].fallback :
            message.attachments[i].fallback[n] = NewRelease

QualifyingIndices == {k \in DOMAIN messages : Qualifies(messages[k])}

MentionsRelease(text) == \E n \in DOMAIN text : text[n] = NewRelease

\* C1: parse_release_notifications returns exactly one record per message
\* that has an attachment whose fallback contains "New release" and none for
\* any other message: the number of records is the number of qualifying
\* messages, timestamp by timestamp.
C1_OneRecordPerNotification ==
    pc = "parse_out" =>
        /\ Len(releases) = Cardinality(QualifyingIndices)
        /\ \A ts \in 0..MaxTs :
             Cardinality({i \in DOMAIN releases : releases[i].release_date = FromTimestamp(ts)})
             = Cardinality({k \in QualifyingIndices : messages[k].ts = ts})

\* a parsed list with a record, a dropped message whose block holds release
\* text and a dropped message whose attachment title holds release text
C1_Witness ==
    /\ pc = "parse_out"
    /\ Len(releases) >= 1
    /\ \E k \in DOMAIN messages :
         /\ messages[k].attachments = <<>>
         /\ \E b \in DOMAIN messages[k].blocks : MentionsRelease(messages[k].blocks[b].text)
    /\ \E k \in DOMAIN messages :
         /\ ~Qualifies(messages[k])
         /\ \E a \in DOMAIN messages[k].attachments :
              MentionsRelease(messages[k].attachments[a].title)

\* position of qualifying message k in a newest-first, input-order-on-ties list
Rank(k) ==
    1 + Cardinality({l \in QualifyingIndices :
                       \/ messages[l].ts > messages[k].ts
                       \/ messages[l].ts = messages[k].ts /\ l < k})

\* C2: for every input order the returned list is sorted by release
\* timestamp descending, and records of equal timestamp keep the relative
\* order of their messages.
C2_SortedDescendingStable ==
    pc = "parse_out" =>
        /\ \A i, j \in DOMAIN releases :
             i < j => ~DtLess(releases[i].release_date, releases[j].release_date)
        /\ \A k \in QualifyingIndices :
             /\ Rank(k) \in DOMAIN releases
             /\ releases[Rank(k)] = ReleaseInfo(messages[k])

\* an input where an older notification precedes a newer one and two
\* different notifications share a timestamp
C2_Witness ==
    /\ pc = "parse_out"
    /\ \E k, l \in QualifyingIndices :
         k < l /\ messages[k].ts < messages[l].ts
    /\ \E k, l \in QualifyingIndices :
         /\ k < l
         /\ messages[k].ts = messages[l].ts
         /\ ReleaseInfo(messages[k]) # ReleaseInfo(messages[l])

\* the texts of the section blocks that carry a text, in block order
SectionTexts(message) ==
    LET sec == SelectSeq(message.blocks, LAMBDA b : b.type = "section" /\ b.text # None)
    IN  [n \in DOMAIN sec |-> sec[n].text]

\* the title-link of an attachment as a URL source
LinkSource(attachment) ==
    IF /\ \E n \in DOMAIN attachment.title_link :
            attachment.title_link[n][1] \in {"url", "relpage", "ghrepo"}
       /\ \E n \in DOMAIN attachment.title_link :
            attachment.title_link[n][1] \in {"url", "relpage"}
    THEN CleanLink(attachment.title_link)
    ELSE <<>>

\* ordered sources of the repository phrase and of the version
TextSources(message) ==
    [n \in DOMAIN message.attachments |->
        message.attachments[n].fallback \o message.attachments[n].title
        \o message.attachments[n].text]
    \o SectionTexts(message)

\* ordered sources of the URL: each attachment's text, then its title-link
UrlSources(message) ==
    [n \in 1..(2 * Len(message.attachments)) |->
        IF n % 2 = 1
        THEN LET a == message.attachments[(n + 1) \div 2]
             IN  a.fallback \o a.title \o a.text
        ELSE LinkSource(message.attachments[n \div 2])]
    \o SectionTexts(message)

\* what each source yields for a field
RepoHits(message) ==
    [n \in DOMAIN TextSources(message) |-> RepoSearch(TextSources(message)[n])]
VersionHits(message) ==
    [n \in DOMAIN TextSources(message) |-> VersionSearch(TextSources(message)[n])]
UrlHits(message) ==
    [n \in DOMAIN UrlSources(message) |-> UrlSearch(UrlSources(message)[n])]

\* the first source with a match, 0 when no source has one
FirstSource(hits) ==
    IF \E i \in DOMAIN hits : hits[i] # None
    THEN CHOOSE i \in DOMAIN hits : hits[i] # None /\ \A j \in 1..(i - 1) : hits[j] = None
    ELSE 0

FirstMatch(hits) == IF FirstSource(hits) = 0 THEN None ELSE hits[FirstSource(hits)]

\* C3: each of repository phrase, version and URL is the first match over
\* its own ordered sources (attachments in order, for the URL also each
\* attachment's cleaned title-link, then the section blocks in order); a
\* later source never changes it and the fields are searched independently.
C3_FirstMatchWinsPerField ==
    (pc = "parse_out" /\ releases # <<>>) =>
        LET m == messages[1]
            r == releases[1]
            repo == FirstMatch(RepoHits(m))
            ver == FirstMatch(VersionHits(m))
        IN  /\ repo # None => r.repository = repo[2]
            /\ r.version = IF ver = None THEN Unknown ELSE ver[2]
            /\ r.url = FirstMatch(UrlHits(m))

\* a message where a block's repository match loses to an attachment's,
\* the three fields come from different sources and the URL is resolved
C3_Witness ==
    /\ pc = "parse_out"
    /\ releases # <<>>
    /\ LET m == messages[1]
           src == TextSources(m)
       IN  /\ \E i, j \in DOMAIN src :
                /\ i <= Len(m.attachments)
                /\ j > Len(m.attachments)
                /\ RepoSearch(src[i]) # None
                /\ RepoSearch(src[j]) # None
                /\ RepoSearch(src[i]) # RepoSearch(src[j])
           /\ FirstSource(RepoHits(m)) # FirstSource(VersionHits(m))
           /\ FirstSource(VersionHits(m)) # 0
           /\ FirstSource(UrlHits(m)) > FirstSource(VersionHits(m))
           /\ releases[1].url # None

\* C4: repository and version of a record are never null: repository is
\* the direct match, else the owner/name of the record's URL, else
\* "Unknown"; version is a match or "Unknown"; a record with a URL never
\* has repository "Unknown".
C4_NeverNullWithUrlFallback ==
    pc = "parse_out" =>
        \A i \in DOMAIN releases :
            LET r == releases[i]
                direct == FirstMatch(RepoHits(messages[1]))
            IN  /\ r.repository \in STRING
                /\ r.version \in STRING
                /\ r.repository = IF direct # None THEN direct[2]
                                  ELSE IF r.url # None THEN r.url[2]
                                  ELSE Unknown
                /\ r.url # None => r.repository # Unknown

\* a record whose repository comes from its URL alone
C4_Witness ==
    /\ pc = "parse_out"
    /\ releases # <<>>
    /\ FirstMatch(RepoHits(messages[1])) = None
    /\ releases[1].url # None
    /\ releases[1].repository = releases[1].url[2]
    /\ releases[1].version = Unknown

NotesRequested == Flag(env.FETCH_NOTES)

PostScan == pc \in {"csv", "md", "exit", "done"}

\* the notes the call made for record i produced
CallResult(i) ==
    LET c == CHOOSE c \in Range(notesCalls) : c.i = i
    IN  IF c.resp[1] = "200" /\ c.resp[2] # <<>> THEN c.resp[2] ELSE None

\* C5: after scan_releases the notes key is present exactly when
\* enrichment was requested: absent from every record (and from the CSV)
\* when disabled; present in every record when enabled, null without URL
\* or after a failed or empty fetch and the fetched body otherwise, and the
\* CSV has a notes column.
C5_NotesKeyEncodesRequest ==
    PostScan =>
        /\ \A i \in DOMAIN releases :
             IF NotesRequested
             THEN /\ "notes" \in DOMAIN releases[i]
                  /\ IF releases[i].url = None THEN releases[i].notes = None
                     ELSE /\ \E c \in Range(notesCalls) : c.i = i
                          /\ releases[i].notes = CallResult(i)
             ELSE "notes" \notin DOMAIN releases[i]
        /\ csvFile # NotWritten =>
             /\ ("notes" \in Range(csvFile[1].fieldnames)) = NotesRequested
             /\ \A n \in DOMAIN csvFile[1].rows :
                  ("notes" \in DOMAIN csvFile[1].rows[n]) = NotesRequested

\* a finished run with notes requested: one record got a body, one with a
\* URL got null after a failed fetch, one has no URL, and the CSV is written
C5_Witness ==
    /\ pc = "done"
    /\ NotesRequested
    /\ csvFile # NotWritten
    /\ \E i, j, k \in DOMAIN releases :
         /\ releases[i].notes = Body1
         /\ releases[j].url # None /\ releases[j].notes = None
         /\ releases[k].url = None /\ releases[k].notes = None

\* C6: without SLACK_BOT_TOKEN the run is fatal: no chat-API call, no
\* output file, and a non-zero exit code.
C6_NoTokenExitsNonZero ==
    (pc = "done" /\ ~EnvSet(env.SLACK_BOT_TOKEN)) =>
        /\ apiCalls = 0
        /\ csvFile = NotWritten
        /\ mdFile = NotWritten
        /\ exit_code # 0

\* a fatal error raised while fetching: a chat-API failure, or the channel
\* name not found in the listing
FetchFailed ==
    \/ error = "Exception"
    \/ error = "ValueError" /\ apiCalls >= 1

\* C7: with a credential every finished run exits 0 when no fatal error
\* occurred and 1 when one occurred; a fatal error raised while fetching is
\* not swallowed and no output file is written after it.
C7_ExitCodeReflectsFatalError ==
    (pc = "done" /\ EnvSet(env.SLACK_BOT_TOKEN)) =>
        /\ exit_code \in {0, 1}
        /\ (exit_code = 1) = (error # "none")
        /\ FetchFailed => exit_code = 1 /\ csvFile = NotWritten /\ mdFile = NotWritten
        /\ (apiCalls = 1 /\ error # "Exception") =>
             (exit_code = 1) = (\A n \in DOMAIN listing[1] : listing[1][n].name # ChannelName)

\* a run that fetched one page and failed on the next history call, with
\* both outputs requested
C7_Witness ==
    /\ pc = "done"
    /\ EnvSet(env.SLACK_BOT_TOKEN)
    /\ EnvSet(env.OUTPUT_CSV)
    /\ EnvSet(env.OUTPUT_MD)
    /\ error = "Exception"
    /\ apiCalls = 3
    /\ messages # <<>>
    /\ exit_code = 1

\* the calendar date of a datetime is earlier
DateLess(a, b) ==
    \/ a.year < b.year
    \/ a.year = b.year /\ a.month < b.month
    \/ a.year = b.year /\ a.month = b.month /\ a.day < b.day

Headers(lines) == SelectSeq(lines, LAMBDA l : l[1] = "date")

\* the date header above line n
HeaderAbove(lines, n) ==
    lines[CHOOSE h \in 1..n : lines[h][1] = "date" /\ \A g \in (h + 1)..n : lines[g][1] # "date"]

\* C8: export_to_markdown emits one date header per distinct calendar
\* date, the headers in descending calendar-date order, each record's
\* bullet under the header of its own date.
C8_HeadersDescendByCalendarDate ==
    pc = "md_out" =>
        LET lines == mdFile[1]
            H == Headers(lines)
        IN  /\ Len(H) = Cardinality({StrftimeYmd(releases[i].release_date) : i \in DOMAIN releases})
            /\ \A n \in DOMAIN lines :
                 lines[n][1] = "release" => HeaderAbove(lines, n)[2] = lines[n][5]
            /\ \A i, j \in DOMAIN H :
                 i < j =>
                   \E a, b \in DOMAIN releases :
                      /\ StrftimeYmd(releases[a].release_date) = H[i][2]
                      /\ StrftimeYmd(releases[b].release_date) = H[j][2]
                      /\ DateLess(releases[b].release_date, releases[a].release_date)

\* the channels of every page of the listing
Visible(l) == UNION {Range(l[p]) : p \in DOMAIN l}

ListAnswered == listing # <<>> /\ ~(error = "Exception" /\ apiCalls = 1)

\* C9: get_channel_id returns the identifier of the channel named
\* channel_name whenever one is visible on any page of the listing, and
\* fails, leaving channel_id unset, only when none is.
C9_ResolvesAnyVisibleChannel ==
    ListAnswered =>
        IF \E c \in Visible(listing) : c.name = ChannelName
        THEN \E c \in Visible(listing) : c.name = ChannelName /\ channel_id = c.id
        ELSE channel_id = None /\ error = "ValueError"

\* records 1..n that carry a URL
WithUrl(n) == {i \in 1..n : releases[i].url # None}

BaseFields(r) == [k \in {"repository", "version", "release_date", "url"} |-> r[k]]

\* C10: with fetch_notes enabled fetch_release_notes is called exactly
\* once per record with a URL, in record order, never for a record without
\* URL, and never when disabled; a failing call raises nothing, aborts
\* nothing, does not stop the later calls and changes no other field.
C10_OneCallPerUrlInOrder ==
    /\ ~NotesRequested => notesCalls = <<>>
    /\ Len(notesCalls) = Cardinality(WithUrl(idx - 1))
    /\ \A k \in DOMAIN notesCalls :
         /\ notesCalls[k].i \in WithUrl(idx - 1)
         /\ notesCalls[k].url = releases[notesCalls[k].i].url
         /\ \A j \in 1..(k - 1) : notesCalls[j].i < notesCalls[k].i
    /\ (pc \in {"csv", "md"} /\ NotesRequested) => idx = Len(releases) + 1
    /\ pc \in {"notes", "csv"} => error = "none"
    /\ pc \in {"notes", "csv", "md"} =>
         [i \in DOMAIN releases |-> BaseFields(releases[i])]
         = ParseReleaseNotifications(messages)

\* the notes loop finished after a failed call followed by a successful
\* one, with a record without URL in the list and the list reordered
C10_Witness ==
    /\ pc = "csv"
    /\ NotesRequested
    /\ Len(notesCalls) = 2
    /\ notesCalls[1].resp[1] # "200"
    /\ releases[notesCalls[1].i].notes = None
    /\ releases[notesCalls[2].i].notes = Body1
    /\ \E i \in DOMAIN releases : releases[i].url = None
    /\ messages[1].ts < messages[Len(messages)].ts

====
